---- MODULE Spec2Model ----
(***************************************************************************)
(* Fault-injection script: router (request normalisation), load_registry   *)
(* (template index loading) and inject (lookup, render, kubectl apply).    *)
(* Strings the code manipulates character by character (templateID, name)  *)
(* are sequences of one-character strings; other strings are TLA+ strings.  *)
(***************************************************************************)
EXTENDS Integers, Sequences, FiniteSets, TLC

\* ---------------------------------------------------------------- bounds
MaxIdLen == 2
MaxItems == 2
MaxCalls == 3

VARIABLES
    \* router
    heap,        \* the caller's metadata dict objects: object id -> dict
    supplied,    \* history: each dict as its caller built it
    args,        \* history: the arguments of the latest router call, with the dict's
                 \* contents at entry (sequence of length 0 or 1)
    returned,    \* the FaultRequest the latest call returned, metadata held by
                 \* reference (sequence of length 0 or 1)
    \* register.py
    TEMPLATE_REGISTRY,  \* the module global of register.py
    fault_engine_TEMPLATE_REGISTRY,
                 \* the name TEMPLATE_REGISTRY of fault_engine.py, bound once by the
                 \* import of line 3 to the mapping register.py then held
    importData,  \* history: the index.yaml that was loaded at import
    ldPc,        \* position of load_registry: "idle", "loop"
    ldData,      \* the parsed index.yaml being loaded
    ldIdx,       \* index of the next item of data["templates"]
    registry,    \* load_registry's local mapping
    ldOutcome,   \* how the latest load ended: "none", "ok", "KeyError"
    ldReported,  \* the items the raised error speaks of: KeyError names the missing
                 \* key of the one item that raised
    oldRegistry, \* history: TEMPLATE_REGISTRY when the latest load started
    seen,        \* history: the latest read at fault_engine.py line 83 (length 0 or 1)
    \* inject
    pc,          \* position of inject: "idle", "lookup", "render", "apply"
    request,     \* the FaultRequest of the call (length 0 or 1)
    template,    \* the resolved TemplateMeta (length 0 or 1)
    rendered,    \* rendered_yaml (length 0 or 1)
    outcome,     \* how the latest call ended: "none", "None" (returned None), or the
                 \* name of the exception that left inject
    trace,       \* history: the steps the current call has executed
    cluster,     \* the objects kubectl has applied to the cluster
    clusterAtCall, \* history: cluster when the current call started
    nCalls

routerVars == <<heap, supplied, args, returned>>
loadVars == <<TEMPLATE_REGISTRY, fault_engine_TEMPLATE_REGISTRY, importData, ldPc, ldData, ldIdx, registry, ldOutcome, ldReported,
              oldRegistry, seen>>
engineVars == <<fault_engine_TEMPLATE_REGISTRY, importData>>
injectVars == <<pc, request, template, rendered, outcome, trace, cluster, clusterAtCall,
                nCalls>>
vars == <<routerVars, loadVars, injectVars>>

\* ------------------------------------------------------- strings and dicts
Alphabet == {"a", "/"}

RECURSIVE SeqsUpTo(_, _)
SeqsUpTo(S, n) ==
    IF n = 0 THEN {<<>>}
    ELSE LET shorter == SeqsUpTo(S, n - 1)
         IN  shorter \cup {Append(s, x) : s \in {t \in shorter : Len(t) = n - 1}, x \in S}

TemplateIDs == SeqsUpTo(Alphabet, MaxIdLen) \ {<<>>}

EmptyDict == [k \in {} |-> "x"]

\* dict.get(key) is None: the key is absent (values are str by the signature)
IsNone(d, key) == key \notin DOMAIN d

\* d[key] = value on a dict
DictSet(d, key, value) == [k \in DOMAIN d \cup {key} |-> IF k = key THEN value ELSE d[k]]

MetaKeys == {"name", "namespace"}
\* names a caller supplies: the empty string and "n"
Names == {<<>>, <<"n">>}
Namespaces == {"default"}

\* an optional value: <<>> (absent) or <<v>>
Optional(S) == {<<>>} \cup {<<v>> : v \in S}

MetaDict(name, namespace) ==
    [k \in (IF name = <<>> THEN {} ELSE {"name"})
            \cup (IF namespace = <<>> THEN {} ELSE {"namespace"})
        |-> IF k = "name" THEN name[1] ELSE namespace[1]]

\* the metadata dicts a caller passes: each key absent or holding a str
MetaDicts == {MetaDict(n, ns) : n \in Optional(Names), ns \in Optional(Namespaces)}

\* spec dicts: the target selector, as the set of pods it selects
Scopes == {{"w0"}, {"w1"}, {"w0", "w1"}}
Specs == {[selector |-> sc] : sc \in Scopes}

\* ------------------------------------------------------------------ router
\* str.replace(old, new) for one-character old and new
Replace(s, old, new) == [i \in 1..Len(s) |-> IF s[i] = old THEN new ELSE s[i]]

InstanceSuffix == <<"-", "i", "n", "s", "t", "a", "n", "c", "e">>

DefaultNameNoReplace(templateID) == templateID \o InstanceSuffix

\* f"{templateID.replace('/', '-')}-instance"
DefaultName(templateID) == Replace(templateID, "/", "-") \o InstanceSuffix

DefaultNamespace == "chaos-testing"

\* the dict after the two conditional assignments of router
Normalized(d, templateID) ==
    LET d1 == IF IsNone(d, "name") THEN DictSet(d, "name", DefaultName(templateID)) ELSE d
    IN  IF IsNone(d1, "namespace") THEN DictSet(d1, "namespace", DefaultNamespace) ELSE d1

\* two metadata dict objects, so that a call can reuse a dict or take a fresh one
Refs == {1, 2}

\* lines 42-50; the FaultRequest holds the caller's dict itself (line 48)
router(templateID, ref, spec) ==
    /\ heap' = [heap EXCEPT ![ref] = Normalized(heap[ref], templateID)]
    /\ returned' = <<[templateID |-> templateID, metadata |-> ref, spec |-> spec]>>
    /\ args' = <<[templateID |-> templateID, metadata |-> ref,
                  given |-> heap[ref], spec |-> spec]>>
    /\ UNCHANGED supplied

RouterCall ==
    /\ \E templateID \in TemplateIDs, ref \in Refs, spec \in Specs :
          router(templateID, ref, spec)
    /\ UNCHANGED <<loadVars, injectVars>>

\* ------------------------------------------------------------- register.py
\* the backend kinds TemplateMeta declares
Backends == {"chaos-mesh", "chaosd", "custom"}

ItemKeys == {"templateID", "backend", "path"}

Item(templateID, backend, path) ==
    [k \in (IF templateID = <<>> THEN {} ELSE {"templateID"})
            \cup (IF backend = <<>> THEN {} ELSE {"backend"})
            \cup (IF path = <<>> THEN {} ELSE {"path"})
        |-> IF k = "templateID" THEN templateID[1]
            ELSE IF k = "backend" THEN backend[1] ELSE path[1]]

\* entries of index.yaml: well-formed ones, one naming a backend TemplateMeta does
\* not declare, and ones lacking a key
IndexItems ==
    { Item(<< <<"a">> >>, <<"chaos-mesh">>, <<"p.yaml">>),
      Item(<< <<"a">> >>, <<"chaosd">>, <<"p.yaml">>),
      Item(<< <<"/">> >>, <<"custom">>, <<"p.yaml">>),
      Item(<< <<"a">> >>, <<"foo">>, <<"p.yaml">>),
      Item(<< <<"/">> >>, <<"chaos-mesh">>, <<>>),
      Item(<<>>, <<"chaosd">>, <<"p.yaml">>) }

\* yaml.safe_load of index.yaml: a dict with or without the "templates" list
IndexData ==
    {EmptyDict} \cup {[templates |-> items] : items \in SeqsUpTo(IndexItems, MaxItems)}

\* data.get("templates", [])
Templates(data) == IF "templates" \in DOMAIN data THEN data["templates"] ELSE <<>>

\* item["templateID"], item["backend"], item["path"] all succeed
HasKeys(item) == ItemKeys \subseteq DOMAIN item

TemplateMeta(item) ==
    [templateID |-> item["templateID"], backend |-> item["backend"],
     template_path |-> item["path"]]

\* registry[meta.templateID] = meta
Store(reg, meta) == DictSet(reg, meta.templateID, meta)

\* load_registry run to its end: the mapping returned, or the KeyError of the
\* first item that lacks a key
RECURSIVE LoadFrom(_, _, _)
LoadFrom(items, i, reg) ==
    IF i > Len(items) THEN [outcome |-> "ok", registry |-> reg, reported |-> {}]
    ELSE IF ~HasKeys(items[i])
         THEN [outcome |-> "KeyError", registry |-> EmptyDict, reported |-> {i}]
         ELSE LoadFrom(items, i + 1, Store(reg, TemplateMeta(items[i])))

load_registry(data) == LoadFrom(Templates(data), 1, EmptyDict)

\* lines 16-18
LoadStart ==
    /\ ldPc = "idle"
    /\ \E data \in IndexData : ldData' = data
    /\ registry' = EmptyDict
    /\ ldIdx' = 1
    /\ ldPc' = "loop"
    /\ ldOutcome' = "none"
    /\ ldReported' = {}
    /\ oldRegistry' = TEMPLATE_REGISTRY
    /\ UNCHANGED <<TEMPLATE_REGISTRY, engineVars, seen, routerVars, injectVars>>

\* an in-place reload: every stored item goes straight into the published dict
\* object, which fault_engine's name still refers to while the two are the same
LoadItemInPlace ==
    /\ ldPc = "loop"
    /\ ldIdx <= Len(Templates(ldData))
    /\ LET item == Templates(ldData)[ldIdx]
       IN  IF HasKeys(item)
           THEN /\ registry' = Store(registry, TemplateMeta(item))
                /\ TEMPLATE_REGISTRY' = Store(registry, TemplateMeta(item))
                /\ fault_engine_TEMPLATE_REGISTRY' =
                      IF fault_engine_TEMPLATE_REGISTRY = TEMPLATE_REGISTRY
                      THEN Store(registry, TemplateMeta(item))
                      ELSE fault_engine_TEMPLATE_REGISTRY
                /\ ldIdx' = ldIdx + 1
                /\ UNCHANGED <<ldPc, ldOutcome, ldReported>>
           ELSE /\ ldOutcome' = "KeyError"
                /\ ldReported' = {ldIdx}
                /\ ldPc' = "idle"
                /\ registry' = EmptyDict
                /\ ldIdx' = 1
                /\ UNCHANGED <<TEMPLATE_REGISTRY, fault_engine_TEMPLATE_REGISTRY>>
    /\ UNCHANGED <<importData, ldData, oldRegistry, seen, routerVars, injectVars>>

\* lines 20-26, one iteration; a missing key raises KeyError out of load_registry
LoadItem ==
    /\ ldPc = "loop"
    /\ ldIdx <= Len(Templates(ldData))
    /\ LET item == Templates(ldData)[ldIdx]
       IN  IF HasKeys(item)
           THEN /\ registry' = Store(registry, TemplateMeta(item))
                /\ ldIdx' = ldIdx + 1
                /\ UNCHANGED <<ldPc, ldOutcome, ldReported>>
           ELSE /\ ldOutcome' = "KeyError"
                /\ ldReported' = {ldIdx}
                /\ ldPc' = "idle"
                /\ registry' = EmptyDict
                /\ ldIdx' = 1
    /\ UNCHANGED <<TEMPLATE_REGISTRY, engineVars, ldData, oldRegistry, seen,
                   routerVars, injectVars>>

\* line 28 and the assignment of line 30, which rebinds the name of register.py
\* only: the name fault_engine.py imported keeps the mapping it was bound to
LoadReturn ==
    /\ ldPc = "loop"
    /\ ldIdx > Len(Templates(ldData))
    /\ TEMPLATE_REGISTRY' = registry
    /\ ldOutcome' = "ok"
    /\ ldPc' = "idle"
    /\ registry' = EmptyDict
    /\ ldIdx' = 1
    /\ UNCHANGED <<engineVars, ldData, ldReported, oldRegistry, seen, routerVars,
                   injectVars>>

\* a reader taking fault_engine's TEMPLATE_REGISTRY to subscript it (line 83)
\* while a load may be in progress; the history notes whether one was
ReadRegistry ==
    /\ seen' = <<[mapping |-> fault_engine_TEMPLATE_REGISTRY, loading |-> ldPc = "loop"]>>
    /\ UNCHANGED <<TEMPLATE_REGISTRY, engineVars, ldPc, ldData, ldIdx, registry,
                   ldOutcome, ldReported, oldRegistry, routerVars, injectVars>>

\* ------------------------------------------------------------------ inject
\* the index.yaml of the deployment the inject calls run against
DeployedIndex ==
    [templates |->
        << Item(<< <<"a">> >>, <<"chaos-mesh">>, <<"p.yaml">>),
           Item(<< <<"/">> >>, <<"chaosd">>, <<"p.yaml">>),
           Item(<< <<"a", "a">> >>, <<"custom">>, <<"p.yaml">>),
           Item(<< <<"a", "/">> >>, <<"chaos-mesh">>, <<"q.yaml">>),
           Item(<< <<"/", "a">> >>, <<"chaos-mesh">>, <<"r.yaml">>),
           Item(<< <<"/", "/">> >>, <<"foo">>, <<"p.yaml">>) >>]

\* the files of EXPERIMENTS_DIR: p.yaml renders, r.yaml raises while rendering;
\* q.yaml does not exist
ExperimentFiles == {"p.yaml", "r.yaml"}
RenderingFiles == {"p.yaml"}

\* a templateID index.yaml does not hold
UnknownID == <<"a", "a", "a">>
ReqIDs == {<<"a">>, <<"/">>, <<"a", "a">>, <<"a", "/">>, <<"/", "a">>, <<"/", "/">>,
           UnknownID}

\* normalized requests, as router returns them
FaultRequests ==
    [templateID : ReqIDs,
     metadata : [name : {<<"n">>, DefaultName(<<"a">>)},
                 namespace : {DefaultNamespace, "default"}],
     spec : Specs]

\* the object the rendered manifest describes: its kind comes from the template
\* file, its name, namespace and selector from the request
Manifest(tmpl, req) ==
    [template_path |-> tmpl.template_path, name |-> req.metadata.name,
     namespace |-> req.metadata.namespace, selector |-> req.spec.selector]

SameObject(o, m) ==
    /\ o.template_path = m.template_path
    /\ o.name = m.name
    /\ o.namespace = m.namespace

\* kubectl apply: creates the object, or updates the one of that kind, namespace and name
Applied(objects, m) == {o \in objects : ~SameObject(o, m)} \cup {m}

\* inject(request) is entered
InjectCall ==
    /\ pc = "idle"
    /\ nCalls < MaxCalls
    /\ \E req \in FaultRequests : request' = <<req>>
    /\ nCalls' = nCalls + 1
    /\ pc' = "lookup"
    /\ template' = <<>>
    /\ rendered' = <<>>
    /\ outcome' = "none"
    /\ trace' = <<>>
    /\ clusterAtCall' = cluster
    /\ UNCHANGED <<cluster, loadVars, routerVars>>

\* the template a missing key falls back to
FallbackTemplate == [templateID |-> <<>>, backend |-> "chaos-mesh", template_path |-> "p.yaml"]

\* a lookup that falls back instead of raising
ResolveOrFallback(reg, templateID) ==
    IF templateID \in DOMAIN reg THEN <<reg[templateID]>> ELSE <<FallbackTemplate>>

\* TEMPLATE_REGISTRY[request.templateID], line 83: <<>> stands for the KeyError
Resolve(reg, templateID) ==
    IF templateID \in DOMAIN reg THEN <<reg[templateID]>> ELSE <<>>

\* a dispatch that renders and applies whatever is not chaosd
NextStepNotChaosd(backend) == IF backend # "chaosd" THEN "render" ELSE "return"

\* the if/elif chain of lines 85, 105, 108: only chaos-mesh has a body
NextStep(backend) == IF backend = "chaos-mesh" THEN "render" ELSE "return"

\* line 83 and the dispatch on template.backend
Lookup ==
    /\ pc = "lookup"
    /\ trace' = Append(trace, "lookup")
    /\ LET found == Resolve(fault_engine_TEMPLATE_REGISTRY, request[1].templateID)
       IN  IF found = <<>>
           THEN /\ outcome' = "KeyError"
                /\ pc' = "idle"
                /\ UNCHANGED template
           ELSE /\ template' = found
                /\ IF NextStep(found[1].backend) = "render"
                   THEN pc' = "render" /\ UNCHANGED outcome
                   ELSE pc' = "idle" /\ outcome' = "None"
    /\ UNCHANGED <<request, rendered, cluster, clusterAtCall, nCalls>>
    /\ UNCHANGED <<loadVars, routerVars>>

\* lines 86-98: get_template raises TemplateNotFound for a missing file, render
\* raises for a template that fails on the request
Render ==
    /\ pc = "render"
    /\ trace' = Append(trace, "render")
    /\ IF template[1].template_path \notin ExperimentFiles
       THEN outcome' = "TemplateNotFound" /\ pc' = "idle" /\ UNCHANGED rendered
       ELSE IF template[1].template_path \notin RenderingFiles
       THEN outcome' = "UndefinedError" /\ pc' = "idle" /\ UNCHANGED rendered
       ELSE /\ rendered' = <<Manifest(template[1], request[1])>>
            /\ pc' = "apply"
            /\ UNCHANGED outcome
    /\ UNCHANGED <<request, template, cluster, clusterAtCall, nCalls>>
    /\ UNCHANGED <<loadVars, routerVars>>

\* how a run of kubectl can end: exit status 0; a non-zero exit status with the
\* object not created or already created; kubectl not startable
KubectlResults == {"exit0", "nonzero", "nonzero-created", "not-started"}

\* the exception subprocess.run(..., check=True) raises, "None" when it returns
RunOutcome(result) ==
    IF result = "exit0" THEN "None"
    ELSE IF result = "not-started" THEN "FileNotFoundError"
    ELSE "CalledProcessError"

\* lines 99-103
Apply ==
    /\ pc = "apply"
    /\ trace' = Append(trace, "apply")
    /\ \E result \in KubectlResults :
          /\ cluster' = IF result \in {"exit0", "nonzero-created"}
                        THEN Applied(cluster, rendered[1]) ELSE cluster
          /\ outcome' = RunOutcome(result)
    /\ pc' = "idle"
    /\ UNCHANGED <<request, template, rendered, clusterAtCall, nCalls>>
    /\ UNCHANGED <<loadVars, routerVars>>

\* --------------------------------------------------------- specifications
InitRouter ==
    /\ heap \in [Refs -> MetaDicts]
    /\ supplied = heap
    /\ args = <<>>
    /\ returned = <<>>

IdleRouter ==
    /\ heap = [r \in Refs |-> EmptyDict]
    /\ supplied = heap
    /\ args = <<>>
    /\ returned = <<>>

IdleLoad ==
    /\ ldPc = "idle" /\ ldData = EmptyDict /\ ldIdx = 1 /\ registry = EmptyDict
    /\ ldOutcome = "none" /\ ldReported = {} /\ oldRegistry = TEMPLATE_REGISTRY
    /\ seen = <<>>

IdleInject ==
    /\ pc = "idle" /\ request = <<>> /\ template = <<>> /\ rendered = <<>>
    /\ outcome = "none" /\ trace = <<>> /\ cluster = {} /\ clusterAtCall = {}
    /\ nCalls = 0

\* router called any number of times on dicts the caller built
InitRouterSpec ==
    /\ InitRouter
    /\ TEMPLATE_REGISTRY = EmptyDict
    /\ fault_engine_TEMPLATE_REGISTRY = EmptyDict
    /\ importData = EmptyDict
    /\ IdleLoad /\ IdleInject

SpecRouter == InitRouterSpec /\ [][RouterCall]_vars

\* the index.yaml present at import: one that loads, its entries bearing distinct
\* templateIDs (reloads take every index of IndexData)
ImportData ==
    {data \in IndexData :
        /\ load_registry(data).outcome = "ok"
        /\ \A i \in 1..Len(Templates(data)), j \in 1..Len(Templates(data)) :
              i # j => Templates(data)[i]["templateID"] # Templates(data)[j]["templateID"]}

\* fault_engine.py imported, and with it register.py (lines 15-30 run once); then
\* register.py is reloaded while readers read
InitLoad ==
    /\ \E data \in ImportData :
          /\ importData = data
          /\ TEMPLATE_REGISTRY = load_registry(data).registry
          /\ fault_engine_TEMPLATE_REGISTRY = load_registry(data).registry
    /\ IdleLoad /\ IdleRouter /\ IdleInject

NextLoad == LoadStart \/ LoadItem \/ LoadReturn \/ ReadRegistry

SpecLoad == InitLoad /\ [][NextLoad]_vars

\* register.py imported with the deployment's index, then inject called repeatedly
InitInject ==
    /\ importData = DeployedIndex
    /\ TEMPLATE_REGISTRY = load_registry(DeployedIndex).registry
    /\ fault_engine_TEMPLATE_REGISTRY = load_registry(DeployedIndex).registry
    /\ IdleLoad /\ IdleRouter /\ IdleInject

NextInject == InjectCall \/ Lookup \/ Render \/ Apply

SpecInject == InitInject /\ [][NextInject]_vars

\* ------------------------------------------------------------------ claims
Finished == pc = "idle" /\ request # <<>>

Steps(t) == {t[i] : i \in 1..Len(t)}

CompletedSteps == <<"lookup", "render", "apply">>

\* m holds exactly the entries of items, a later entry replacing an earlier one
\* of the same templateID
IsMappingOf(m, items) ==
    /\ DOMAIN m = {items[i]["templateID"] : i \in 1..Len(items)}
    /\ \A i \in 1..Len(items) :
          (\A j \in (i + 1)..Len(items) : items[j]["templateID"] # items[i]["templateID"])
            => /\ m[items[i]["templateID"]].templateID = items[i]["templateID"]
               /\ m[items[i]["templateID"]].backend = items[i]["backend"]
               /\ m[items[i]["templateID"]].template_path = items[i]["path"]

\* C1: a call whose template declares the backend "chaosd" or "custom" ends in an
\* Unsupported result, never in the outcome of a successful chaos-mesh apply
\* (inject returning None).
UnsupportedIsDistinguished ==
    (Finished /\ template # <<>> /\ template[1].backend \in {"chaosd", "custom"})
        => (outcome = "Unsupported" /\ outcome # "None")

\* C2: a call whose templateID is not a key of the registry ends in the lookup's
\* not-found error (the KeyError of line 83), having rendered nothing and
\* submitted nothing: the backend state and the registry are as before the call.
UnknownTemplateHasNoEffect ==
    (Finished /\ request[1].templateID \notin DOMAIN fault_engine_TEMPLATE_REGISTRY)
        => /\ outcome = "KeyError"
           /\ trace = <<"lookup">>
           /\ template = <<>>
           /\ rendered = <<>>
           /\ cluster = clusterAtCall
           /\ TEMPLATE_REGISTRY = oldRegistry
           /\ IsMappingOf(fault_engine_TEMPLATE_REGISTRY, Templates(importData))

UnknownTemplateRejected ==
    /\ Finished
    /\ request[1].templateID = UnknownID
    /\ outcome = "KeyError"
    /\ cluster # {}

Overlapping(o1, o2) ==
    o1.namespace = o2.namespace /\ o1.selector \cap o2.selector # {}

\* C3: no two distinct applied faults overlap in scope within a namespace, and a
\* call for an applicable (chaos-mesh) template whose scope overlaps a fault
\* applied before it ends in ConflictError without touching the backend.  No
\* template is composable: TemplateMeta has no such declaration.
OverlappingSubmitConflicts ==
    /\ \A o1 \in cluster, o2 \in cluster : Overlapping(o1, o2) => o1 = o2
    /\ (/\ Finished
        /\ rendered # <<>>
        /\ \E o \in clusterAtCall : Overlapping(o, rendered[1]) /\ ~SameObject(o, rendered[1]))
        => (outcome = "ConflictError" /\ cluster = clusterAtCall)

EngineErrors ==
    {"NotFound", "InvalidTemplate", "ValidationError", "ConflictError", "RenderError",
     "ApplyError", "RevertError", "Timeout", "Unsupported"}

\* C4: when the kubectl run fails (non-zero exit status, or not startable), the
\* call ends in an error of the engine's taxonomy, not in the exception
\* subprocess.run raised.
TransportFailureIsStructured ==
    (Finished /\ "apply" \in Steps(trace) /\ outcome # "None")
        => outcome \in EngineErrors

\* C5: when a call fails after the backend apply was started, a revert was
\* attempted before the error came back, and either nothing of the apply is left
\* on the backend or the failure is recorded as FAILED_PARTIAL.
FailedApplyIsReverted ==
    (Finished /\ "apply" \in Steps(trace) /\ outcome # "None")
        => /\ "revert" \in Steps(trace)
           /\ (cluster = clusterAtCall \/ outcome = "FAILED_PARTIAL")

Defective(item) == ~HasKeys(item) \/ item["backend"] \notin Backends

DefectiveEntries(items) == {i \in 1..Len(items) : Defective(items[i])}

\* C6: a load of a source with defective entries (unknown backend kind, or a
\* required key missing) ends in an error (whatever exception stands for
\* InvalidTemplate), the error reports every defective entry, and no registry is
\* returned and published.
LoadRejectsDefects ==
    (ldPc = "idle" /\ ldOutcome # "none" /\ DefectiveEntries(Templates(ldData)) # {})
        => /\ ldOutcome # "ok"
           /\ ldReported = DefectiveEntries(Templates(ldData))
           /\ TEMPLATE_REGISTRY = oldRegistry

\* C7: while a load is in progress the published mapping is the one published
\* before it started; once the load has returned, the published mapping is the
\* complete mapping of the source; a load that raised leaves the old mapping.  A
\* reader at line 83, any number of loads having run or being under way, takes a
\* mapping that was published in full: the complete mapping of the source loaded
\* at import, which is the one its name was bound to.
ReloadIsAtomic ==
    /\ ldPc = "loop" => TEMPLATE_REGISTRY = oldRegistry
    /\ ldOutcome = "KeyError" => TEMPLATE_REGISTRY = oldRegistry
    /\ ldOutcome = "ok" => IsMappingOf(TEMPLATE_REGISTRY, Templates(ldData))
    /\ seen # <<>> => IsMappingOf(seen[1].mapping, Templates(importData))

\* a read during a second load, after a first one published another mapping
ReadDuringLoad ==
    /\ ldPc = "loop"
    /\ ldIdx = 2
    /\ registry # EmptyDict
    /\ registry # TEMPLATE_REGISTRY
    /\ seen # <<>>
    /\ seen[1].loading
    /\ seen[1].mapping # registry
    /\ seen[1].mapping # TEMPLATE_REGISTRY

\* name is templateID with every "/" replaced by "-", followed by "-instance"
IsDefaultNameOf(name, templateID) ==
    /\ Len(name) = Len(templateID) + Len(<<"-", "i", "n", "s", "t", "a", "n", "c", "e">>)
    /\ \A i \in 1..Len(templateID) :
          name[i] = IF templateID[i] = "/" THEN "-" ELSE templateID[i]
    /\ SubSeq(name, Len(templateID) + 1, Len(name))
          = <<"-", "i", "n", "s", "t", "a", "n", "c", "e">>

\* C8: the request router returns carries the given templateID and spec; its
\* metadata name is the name the passed mapping held, or else the default name
\* of the templateID; its namespace is the one the mapping held, or else
\* "chaos-testing".
RouterNormalizes ==
    returned # <<>> =>
        LET req == returned[1]
            given == args[1].given
            m == heap[req.metadata]
        IN  /\ req.templateID = args[1].templateID
            /\ req.spec = args[1].spec
            /\ req.metadata = args[1].metadata
            /\ DOMAIN m = DOMAIN given \cup {"name", "namespace"}
            /\ IF "name" \in DOMAIN given
               THEN m["name"] = given["name"]
               ELSE IsDefaultNameOf(m["name"], args[1].templateID)
            /\ IF "namespace" \in DOMAIN given
               THEN m["namespace"] = given["namespace"]
               ELSE m["namespace"] = "chaos-testing"

DefaultNameGenerated ==
    /\ returned # <<>>
    /\ "name" \notin DOMAIN args[1].given
    /\ "namespace" \notin DOMAIN args[1].given
    /\ \E i \in 1..Len(returned[1].templateID) : returned[1].templateID[i] = "/"
    /\ Len(returned[1].templateID) > 1

\* C9: the steps of a call are a prefix of lookup, render, apply; apply runs at
\* most once, only for a chaos-mesh template and a rendered manifest; the backend
\* changes only in a call that reached apply; a call whose lookup or rendering
\* raised did not reach apply.
InjectStepsOrdered ==
    /\ trace = SubSeq(CompletedSteps, 1, Len(trace))
    /\ Cardinality({i \in 1..Len(trace) : trace[i] = "apply"}) <= 1
    /\ "apply" \in Steps(trace)
          => (template # <<>> /\ template[1].backend = "chaos-mesh" /\ rendered # <<>>)
    /\ "render" \in Steps(trace)
          => (template # <<>> /\ template[1].backend = "chaos-mesh")
    /\ cluster # clusterAtCall => "apply" \in Steps(trace)
    /\ outcome \in {"KeyError", "TemplateNotFound", "UndefinedError"}
          => ("apply" \notin Steps(trace) /\ cluster = clusterAtCall)

AppliedAfterRender ==
    /\ Finished
    /\ trace = CompletedSteps
    /\ outcome = "None"
    /\ cluster # clusterAtCall
    /\ clusterAtCall # {}

\* C10: the caller's metadata mappings are as the caller built them, and a
\* returned request whose caller supplied no name carries the default name of
\* the request's own templateID.
RouterNameFromOwnTemplateID ==
    /\ heap = supplied
    /\ returned # <<>> =>
          ("name" \notin DOMAIN supplied[returned[1].metadata]
              => IsDefaultNameOf(heap[returned[1].metadata]["name"], returned[1].templateID))

====
